---- MODULE Spec2Model ----
(***************************************************************************)
(* A model of YoobuMorph's naming engine (src/src/naming_convention.py)    *)
(* and of the places that call it.                                         *)
(*                                                                         *)
(* A Python str is modelled as a sequence of one-character strings, so     *)
(* that slicing, stripping, regular expressions and formatting are         *)
(* computed character by character.                                        *)
(*                                                                         *)
(* Specifications:                                                         *)
(*   Spec      one caller at a time on one NamingConvention instance       *)
(*   SpecConc  several request-handler threads on the module-level         *)
(*             instance of routes/images.py                                *)
(*   SpecNorm  _normalize_product_name applied to bounded inputs           *)
(*   SpecFile  file-name building, sanitising, parsing and validating      *)
(*   SpecPath  product names and file names derived from image paths       *)
(*   SpecImage ImageProcessor.squareify_image on bounded image sizes       *)
(*   SpecBatch BatchProcessor.process_batch, entered from main() or called *)
(*             directly                                                    *)
(*   SpecRequest  the /images/process-batch handler of routes/images.py    *)
(***************************************************************************)
EXTENDS Integers, Sequences, FiniteSets, TLC

VARIABLES
    generated_ids,  \* NamingConvention.generated_ids: the set of issued ids
    pc,             \* per thread: position inside _generate_unique_id
    length,         \* per thread: the `length` argument of the call
    attempts,       \* per thread: the local `attempts`
    unique_id,      \* per thread: the local `unique_id` (last draw)
    pool_at_call,   \* per thread: generated_ids when the call started
    returned,       \* history: the calls that returned, in order of return
    last,           \* history: the record of the call that returned last
    aux,            \* result of the last pure operation run on the instance
    norm_in,        \* SpecNorm: the raw product name
    norm_out,       \* SpecNorm: what _normalize_product_name returned
    file_in,        \* SpecFile: the inputs of the file-name operations
    filename,       \* SpecFile: the file name built or given
    parsed,         \* SpecFile: what parse_filename returned for it
    valid,          \* SpecFile: what validate_filename returned for it
    path_in,        \* SpecPath: image_path, source_dir and target_width
    extracted,      \* SpecPath: what _extract_product_name_from_path returned
    generated,      \* SpecPath: what generate_filename_and_output_dir returned
    img_in,         \* SpecImage: the decoded input, the mode and the target
    img_out,        \* SpecImage: the outcome of squareify_image
    entry,          \* SpecBatch: "cli" (main) or "library" (a direct call)
    cli_args,       \* SpecBatch: the command line and the environment
    batch_pc,       \* SpecBatch: position inside main / process_batch
    image_files,    \* SpecBatch: the list _process_images walks
    index,          \* SpecBatch: number of images the for loop has taken
    processed_count,\* SpecBatch: the local processed_count
    errors,         \* SpecBatch: the local errors
    attempted,      \* SpecBatch history: the images taken, in order
    exit_status,    \* SpecBatch: the exit status of the process
    call_args,      \* SpecBatch: the arguments process_batch was called with
    request,        \* SpecRequest: data.products
    req_pc,         \* SpecRequest: position inside process_batch
    product_idx,    \* SpecRequest: products taken by the outer loop
    pair_idx,       \* SpecRequest: pairs taken by the inner loop
    processed_variations, \* SpecRequest: the local of the inner function
    results,        \* SpecRequest: the local results of process_batch
    response,       \* SpecRequest: what the handler answered
    tmp_files,      \* SpecRequest: the temporary files that exist
    blobs,          \* SpecRequest: the blobs uploaded to the container
    invoked         \* SpecRequest history: the calls made, in order

vars == <<generated_ids, pc, length, attempts, unique_id, pool_at_call,
          returned, last, aux, norm_in, norm_out, file_in, filename, parsed,
          valid, path_in, extracted, generated, img_in, img_out, entry,
          cli_args, batch_pc, image_files, index, processed_count, errors,
          attempted, exit_status, call_args, request, req_pc, product_idx,
          pair_idx,
          processed_variations, results, response, tmp_files, blobs, invoked>>

naming_vars == <<generated_ids, pc, length, attempts, unique_id, pool_at_call,
                 returned, last, aux>>
norm_vars == <<norm_in, norm_out>>
file_vars == <<file_in, filename, parsed, valid>>
path_vars == <<path_in, extracted, generated>>
image_vars == <<img_in, img_out>>
batch_vars == <<entry, cli_args, batch_pc, image_files, index,
                processed_count, errors, attempted, exit_status, call_args>>
request_vars == <<request, req_pc, product_idx, pair_idx,
                  processed_variations, results, response, tmp_files, blobs,
                  invoked>>

\* what the actions of one specification leave alone
outside_naming == <<norm_vars, file_vars, path_vars, image_vars, batch_vars,
                    request_vars>>
outside_norm == <<naming_vars, file_vars, path_vars, image_vars, batch_vars,
                  request_vars>>
outside_file == <<naming_vars, norm_vars, path_vars, image_vars, batch_vars,
                  request_vars>>

-----------------------------------------------------------------------------
(* Bounds of the model *)

\* number of _generate_unique_id calls in a behaviour
MaxCalls == 2
\* the `length` argument ranges over 1..MaxLength (the callers use the default)
MaxLength == 2
\* time.time() * 1000 is read as any value of 0..MaxTimeMs
MaxTimeMs == 11
\* request-handler threads of SpecConc
NumThreads == 2
\* SpecConc: colliding draws explored per call while another call is in flight
MaxRaceRetries == 1
\* the characters random.choices draws in the model, a sample of
\* alphanumeric_chars with one letter and one digit
DrawChars == {"A", "0"}

Threads == 1..NumThreads
NoId == <<>>
NoAux == [op |-> "none", arg |-> <<>>, out |-> <<>>]
Unset == [done |-> FALSE, value |-> <<>>]
NoFileInput ==
    [kind |-> "none", product |-> <<>>, id |-> <<>>, width |-> 0,
     ext |-> <<>>, raw |-> <<>>]

-----------------------------------------------------------------------------
(* Characters and strings *)

ascii_uppercase ==
    <<"A", "B", "C", "D", "E", "F", "G", "H", "I", "J", "K", "L", "M",
      "N", "O", "P", "Q", "R", "S", "T", "U", "V", "W", "X", "Y", "Z">>

ascii_lowercase ==
    <<"a", "b", "c", "d", "e", "f", "g", "h", "i", "j", "k", "l", "m",
      "n", "o", "p", "q", "r", "s", "t", "u", "v", "w", "x", "y", "z">>

digits == <<"0", "1", "2", "3", "4", "5", "6", "7", "8", "9">>

\* self.alphanumeric_chars = string.ascii_uppercase + string.digits
alphanumeric_chars == ascii_uppercase \o digits

Range(s) == {s[i] : i \in DOMAIN s}

RECURSIVE Pow10(_)
Pow10(n) == IF n = 0 THEN 1 ELSE 10 * Pow10(n - 1)

\* str(n) for n >= 0: the decimal digits, most significant first
RECURSIVE DecimalDigits(_)
DecimalDigits(n) ==
    IF n < 10 THEN <<digits[n + 1]>>
    ELSE Append(DecimalDigits(n \div 10), digits[(n % 10) + 1])

Zeros(n) == [i \in 1..n |-> "0"]

\* format(n, "0{width}d"): zero-filled on the left up to `width` characters,
\* never cut
FormatZeroPadded(n, width) ==
    LET d == DecimalDigits(n) IN Zeros(width - Len(d)) \o d

-----------------------------------------------------------------------------
(* NamingConvention._generate_unique_id *)

max_attempts == 1000

\* ''.join(random.choices(self.alphanumeric_chars, k=length)), the draws
\* restricted to DrawChars
DrawIds(len) == [1..len -> DrawChars \cap Range(alphanumeric_chars)]

TimestampWrongModulus(ms, len) == FormatZeroPadded(ms % Pow10(len + 1), len)

\* int(time.time() * 1000) % (10 ** length), formatted f"{timestamp:0{length}d}"
TimestampId(ms, len) == FormatZeroPadded(ms % Pow10(len), len)

CallsStarted == Len(returned) + Cardinality({t \in Threads : pc[t] # "idle"})

\* a caller enters _generate_unique_id(length): generate_filename_and_output_dir
\* (lines 51 and 69), get_filename_components (line 263) or the request
\* handler (routes/images.py line 120)
Call(t) ==
    /\ pc[t] = "idle"
    /\ CallsStarted < MaxCalls
    /\ \E len \in 1..MaxLength :
          length' = [length EXCEPT ![t] = len]
    /\ pc' = [pc EXCEPT ![t] = "loop"]
    /\ attempts' = [attempts EXCEPT ![t] = 0]
    /\ unique_id' = [unique_id EXCEPT ![t] = NoId]
    /\ pool_at_call' = [pool_at_call EXCEPT ![t] = generated_ids]
    /\ aux' = NoAux
    /\ UNCHANGED <<generated_ids, returned, last>>

\* the frame of a call that returns is popped
PopFrame(t) ==
    /\ pc' = [pc EXCEPT ![t] = "idle"]
    /\ length' = [length EXCEPT ![t] = 0]
    /\ attempts' = [attempts EXCEPT ![t] = 0]
    /\ unique_id' = [unique_id EXCEPT ![t] = NoId]
    /\ pool_at_call' = [pool_at_call EXCEPT ![t] = {}]

CallRecord(t, id, path, ms) ==
    [id |-> id, path |-> path, thread |-> t, length |-> length[t],
     ms |-> ms, before |-> pool_at_call[t]]

\* one iteration whose draw is already in the pool: attempts += 1
DrawCollide(t) ==
    /\ pc[t] = "loop"
    /\ attempts[t] < max_attempts
    /\ \E id \in DrawIds(length[t]) : id \in generated_ids
    /\ attempts' = [attempts EXCEPT ![t] = attempts[t] + 1]
    /\ UNCHANGED <<generated_ids, pc, length, unique_id, pool_at_call,
                   returned, last, aux>>

RegisterReplacing(pool, id) == {id}

\* self.generated_ids.add(unique_id)
Register(pool, id) == pool \cup {id}

\* one iteration whose draw is not in the pool, run without interruption:
\* the draw is added to the pool and returned
Issue(t) ==
    /\ pc[t] = "loop"
    /\ attempts[t] < max_attempts
    /\ \E id \in DrawIds(length[t]) :
          /\ id \notin generated_ids
          /\ generated_ids' = Register(generated_ids, id)
          /\ returned' = Append(returned, [id |-> id, path |-> "draw"])
          /\ last' = CallRecord(t, id, "draw", 0)
    /\ PopFrame(t)
    /\ UNCHANGED aux

FallbackRegisters(t) ==
    /\ pc[t] = "loop"
    /\ ~(attempts[t] < max_attempts)
    /\ \E ms \in 0..MaxTimeMs :
          LET id == TimestampId(ms, length[t]) IN
          /\ returned' = Append(returned, [id |-> id, path |-> "fallback"])
          /\ last' = CallRecord(t, id, "fallback", ms)
          /\ generated_ids' = Register(generated_ids, id)
    /\ PopFrame(t)
    /\ UNCHANGED aux

\* the loop ended without a return: the timestamp is formatted and returned
Fallback(t) ==
    /\ pc[t] = "loop"
    /\ ~(attempts[t] < max_attempts)
    /\ \E ms \in 0..MaxTimeMs :
          LET id == TimestampId(ms, length[t]) IN
          /\ returned' = Append(returned, [id |-> id, path |-> "fallback"])
          /\ last' = CallRecord(t, id, "fallback", ms)
    /\ PopFrame(t)
    /\ UNCHANGED <<generated_ids, aux>>

-----------------------------------------------------------------------------
(* NamingConvention._normalize_product_name *)

\* Non-ASCII characters are written as their code points: "U+00C9" is a
\* capital E with acute accent, "U+00E9" the small one, "U+00A0" the
\* no-break space.

\* str.lower() on one character
lower_char(c) ==
    IF \E i \in DOMAIN ascii_uppercase : ascii_uppercase[i] = c
    THEN ascii_lowercase[CHOOSE i \in DOMAIN ascii_uppercase :
                             ascii_uppercase[i] = c]
    ELSE IF c = "U+00C9" THEN "U+00E9"
    ELSE c

lower(s) == [i \in 1..Len(s) |-> lower_char(s[i])]

\* what \s matches in a str pattern
Whitespace == {" ", "\t", "\n", "\r", "\f", "U+00A0"}

\* the characters of the class a-z0-9\s- , which the first re.sub keeps
KeptClass ==
    Range(ascii_lowercase) \cup Range(digits) \cup Whitespace \cup {"-"}

\* re.sub(r'[^a-z0-9\s-]', '_', s)
sub_special(s) ==
    [i \in 1..Len(s) |-> IF s[i] \in KeptClass THEN s[i] ELSE "_"]

\* s.replace(' ', '_')
replace_spaces(s) == [i \in 1..Len(s) |-> IF s[i] = " " THEN "_" ELSE s[i]]

\* re.sub(r'_+', '_', s): every maximal run of '_' becomes one '_', that is,
\* an underscore that follows an underscore is dropped
sub_underscores(s) ==
    LET kept == SelectSeq([i \in 1..Len(s) |-> i],
                          LAMBDA i : s[i] # "_" \/ i = 1 \/ s[i - 1] # "_")
    IN [k \in 1..Len(kept) |-> s[kept[k]]]

\* s.strip('_')
strip_underscores(s) ==
    IF \A i \in 1..Len(s) : s[i] = "_" THEN <<>>
    ELSE SubSeq(s,
                CHOOSE i \in 1..Len(s) :
                    s[i] # "_" /\ \A j \in 1..(i - 1) : s[j] = "_",
                CHOOSE i \in 1..Len(s) :
                    s[i] # "_" /\ \A j \in (i + 1)..Len(s) : s[j] = "_")

max_product_len == 50

\* if len(s) > n: s = s[:n]
Truncate(s, n) == IF Len(s) > n THEN SubSeq(s, 1, n) ELSE s

\* the string before the length limit is applied
normalize_cleaned(product_name) ==
    strip_underscores(sub_underscores(replace_spaces(sub_special(
        lower(product_name)))))

normalize_truncate_first(product_name) ==
    normalize_cleaned(Truncate(product_name, max_product_len))

_normalize_product_name(product_name) ==
    Truncate(normalize_cleaned(product_name), max_product_len)

(* SpecNorm: the function applied to bounded inputs *)

\* the inputs are  prefix . fill^n . suffix  with n near 0 and near the limit
FillSlack == 2
NormChars == {"a", "B", "7", "-", "_", " ", "\t", "\n", "!", "U+00C9"}
FillChars == {"a", "_"}
FillCounts ==
    (0..FillSlack) \cup ((max_product_len - FillSlack)..(max_product_len + FillSlack))

Repeat(c, n) == [i \in 1..n |-> c]

Prefixes == {<<>>} \cup {<<c>> : c \in NormChars}
Suffixes == Prefixes \cup {<<c, d>> : c \in NormChars, d \in NormChars}

NormInputs ==
    {p \o Repeat(f, n) \o s :
        p \in Prefixes, f \in FillChars, n \in FillCounts, s \in Suffixes}

InitNorm ==
    /\ norm_in \in NormInputs
    /\ norm_out = Unset

Normalize ==
    /\ ~norm_out.done
    /\ norm_out' = [done |-> TRUE, value |-> _normalize_product_name(norm_in)]
    /\ UNCHANGED norm_in


-----------------------------------------------------------------------------
(* File names: formatting, _clean_filename, parse_filename,               *)
(* validate_filename                                                      *)

Max(S) == CHOOSE x \in S : \A y \in S : y <= x
Min(S) == CHOOSE x \in S : \A y \in S : x <= y

\* str(n) of an int
str_int(n) == IF n < 0 THEN <<"-">> \o DecimalDigits(-n) ELSE DecimalDigits(n)

\* int(s) of a non-empty string of decimal digits
RECURSIVE int_digits(_)
int_digits(s) ==
    IF s = <<>> THEN 0
    ELSE 10 * int_digits(SubSeq(s, 1, Len(s) - 1))
         + ((CHOOSE i \in DOMAIN digits : digits[i] = s[Len(s)]) - 1)

\* f"{product_name}_{alphanumeric_id}_SLY_{target_width}.{ext}"
format_filename(product, id, width, ext) ==
    product \o <<"_">> \o id \o <<"_", "S", "L", "Y", "_">> \o str_int(width)
    \o <<".">> \o ext

\* the character class of the first re.sub of _clean_filename
ForbiddenChars == {"<", ">", ":", "\"", "/", "\\", "|", "?", "*"}

\* re.sub(r'[<>:"/\\|?*]', '_', s)
sub_forbidden(s) ==
    [i \in 1..Len(s) |-> IF s[i] \in ForbiddenChars THEN "_" ELSE s[i]]

\* s[:k] for any int k
slice_to(s, k) ==
    IF k >= 0 THEN SubSeq(s, 1, IF k < Len(s) THEN k ELSE Len(s))
    ELSE SubSeq(s, 1, Len(s) + k)

max_filename_len == 200

DotPositions(s) == {i \in 1..Len(s) : s[i] = "."}

clean_limit_cut_end(cleaned) ==
    IF Len(cleaned) > max_filename_len
    THEN [raised |-> FALSE, value |-> SubSeq(cleaned, 1, max_filename_len)]
    ELSE [raised |-> FALSE, value |-> cleaned]

\* if len(cleaned) > 200: name_part, ext_part = cleaned.rsplit('.', 1); ...
\* (the unpacking raises ValueError when there is no '.')
clean_limit(cleaned) ==
    IF Len(cleaned) > max_filename_len
    THEN IF DotPositions(cleaned) = {}
         THEN [raised |-> TRUE, value |-> <<>>]
         ELSE LET dot == Max(DotPositions(cleaned))
                  name_part == SubSeq(cleaned, 1, dot - 1)
                  ext_part == SubSeq(cleaned, dot + 1, Len(cleaned))
                  max_name_length == max_filename_len - Len(ext_part) - 1
              IN [raised |-> FALSE,
                  value |-> slice_to(name_part, max_name_length)
                            \o <<".">> \o ext_part]
    ELSE [raised |-> FALSE, value |-> cleaned]

\* the sanitiser before the length limit
clean_chars(name) ==
    strip_underscores(sub_underscores(sub_forbidden(name)))

_clean_filename(name) == clean_limit(clean_chars(name))

\* [A-Z0-9]
IdClass == Range(alphanumeric_chars)

\* \d (the ASCII digits)
DigitClass == Range(digits)

\* the end of the longest run of digits that starts at position i
\* (i - 1 when s[i] is no digit)
DigitRunEnd(s, i) ==
    LET stop == {k \in i..Len(s) : s[k] \notin DigitClass} IN
    IF stop = {} THEN Len(s) ELSE Min(stop) - 1

NoNewline(s) == \A i \in 1..Len(s) : s[i] # "\n"

\* (.+)$ on the rest of the string: '.' matches no newline, and $ matches at
\* the end and before a newline that ends the string
DotPlusToEnd(rest) ==
    IF rest # <<>> /\ NoNewline(rest) THEN [ok |-> TRUE, group |-> rest]
    ELSE IF /\ Len(rest) >= 2
            /\ rest[Len(rest)] = "\n"
            /\ NoNewline(SubSeq(rest, 1, Len(rest) - 1))
         THEN [ok |-> TRUE, group |-> SubSeq(rest, 1, Len(rest) - 1)]
         ELSE [ok |-> FALSE, group |-> <<>>]

\* (jpg|jpeg|png|webp)
Extensions ==
    {<<"j", "p", "g">>, <<"j", "p", "e", "g">>, <<"p", "n", "g">>,
     <<"w", "e", "b", "p">>}

\* (jpg|jpeg|png|webp)$ on the rest of the string
ExtensionToEnd(rest) ==
    IF rest \in Extensions THEN [ok |-> TRUE, group |-> rest]
    ELSE IF /\ Len(rest) >= 2
            /\ rest[Len(rest)] = "\n"
            /\ SubSeq(rest, 1, Len(rest) - 1) \in Extensions
         THEN [ok |-> TRUE, group |-> SubSeq(rest, 1, Len(rest) - 1)]
         ELSE [ok |-> FALSE, group |-> <<>>]

SLY == <<"_", "S", "L", "Y", "_">>

\* _([A-Z0-9]{7})_SLY_(\d+)\. matched right after position e; \d+ takes the
\* whole run of digits, since the '.' that must follow is no digit
TailMatches(s, e) ==
    /\ e + 14 <= Len(s)
    /\ s[e + 1] = "_"
    /\ \A k \in (e + 2)..(e + 8) : s[k] \in IdClass
    /\ SubSeq(s, e + 9, e + 13) = SLY
    /\ DigitRunEnd(s, e + 14) >= e + 14
    /\ DigitRunEnd(s, e + 14) + 1 <= Len(s)
    /\ s[DigitRunEnd(s, e + 14) + 1] = "."

RestAfterDot(s, e) == SubSeq(s, DigitRunEnd(s, e + 14) + 2, Len(s))

unknown == <<"u", "n", "k", "n", "o", "w", "n">>

Sentinel ==
    [product_name |-> unknown, unique_id |-> unknown, width |-> 0,
     extension |-> unknown]

\* the ends e of group 1 for which the whole pattern matches
ParseMatchEnds(s) ==
    {e \in 1..Len(s) :
        /\ TailMatches(s, e)
        /\ NoNewline(SubSeq(s, 1, e))
        /\ DotPlusToEnd(RestAfterDot(s, e)).ok}

ShortestGroup(S) == Min(S)

\* (.+) is greedy: the match re.match reports has the longest group 1
GreedyGroup(S) == Max(S)

parse_filename(s) ==
    IF ParseMatchEnds(s) = {} THEN Sentinel
    ELSE LET e == GreedyGroup(ParseMatchEnds(s)) IN
         [product_name |-> SubSeq(s, 1, e),
          unique_id |-> SubSeq(s, e + 2, e + 8),
          width |-> int_digits(SubSeq(s, e + 14, DigitRunEnd(s, e + 14))),
          extension |-> DotPlusToEnd(RestAfterDot(s, e)).group]

\* [a-z0-9_-]
ValidNameClass == Range(ascii_lowercase) \cup Range(digits) \cup {"_", "-"}

validate_filename(s) ==
    \E e \in 1..Len(s) :
        /\ TailMatches(s, e)
        /\ \A k \in 1..e : s[k] \in ValidNameClass
        /\ ExtensionToEnd(RestAfterDot(s, e)).ok

(* SpecFile: the file-name operations applied to bounded inputs *)

\* formatted names are padded to total lengths within FileSlack of the limit
FileSlack == 2

ProductSamples ==
    {<<>>,
     <<"a", "c", "m", "e">>,
     <<"a", "\n", "b">>,
     <<"a", "*", "b">>,
     <<"a", "_">>,
     <<"x", "_", "A", "B", "1", "2", "C", "D", "3", "_", "S", "L", "Y", "_",
       "1", ".", "y">>}

IdSamples ==
    {<<"A", "B", "1", "2", "C", "D", "3">>,
     <<"0", "0", "0", "0", "0", "1", "2">>,
     <<"a", "b", "1", "2", "c", "d", "3">>}

WidthSamples == {0, 750}

\* names given to parse_filename and validate_filename as they are
RawNames ==
    {<<>>,
     <<"p", "h", "o", "t", "o", ".", "j", "p", "g">>,
     <<"a", "_", "A", "B", "1", "2", "C", "D", "3", "_", "S", "L", "Y", "_",
       "0", "0", "7", ".", "j", "p", "g">>,
     <<"a", "_", "A", "B", "1", "2", "C", "D", "3", "_", "S", "L", "Y", "_",
       "1", ".", "p", "n", "g", "\n">>,
     <<"a", "_", "A", "B", "1", "2", "C", "D", "3", "_", "S", "L", "Y", "_",
       ".", "j", "p", "g">>,
     <<"A", "_", "A", "B", "1", "2", "C", "D", "3", "_", "S", "L", "Y", "_",
       "5", ".", "g", "i", "f">>}

TotalLens ==
    (max_filename_len - FileSlack)..(max_filename_len + FileSlack)

\* the product name alone, and padded with 'a' so that the formatted name has
\* a total length of TotalLens
PaddedProducts(p, id, width, ext) ==
    {p} \cup {p \o Repeat("a", total - Len(format_filename(p, id, width, ext))) :
                 total \in TotalLens}

BuildInputs ==
    UNION {{[kind |-> "build", product |-> q, id |-> id, width |-> w,
             ext |-> e, raw |-> <<>>] : q \in PaddedProducts(p, id, w, e)} :
           p \in ProductSamples, id \in IdSamples, w \in WidthSamples,
           e \in Extensions}

RawInputs ==
    {[kind |-> "raw", product |-> <<>>, id |-> <<>>, width |-> 0,
      ext |-> <<>>, raw |-> r] : r \in RawNames}

InitFile ==
    /\ file_in \in BuildInputs \cup RawInputs
    /\ filename = IF file_in.kind = "raw"
                  THEN [done |-> TRUE, raised |-> FALSE, value |-> file_in.raw]
                  ELSE [done |-> FALSE, raised |-> FALSE, value |-> <<>>]
    /\ parsed = Unset
    /\ valid = Unset

Formatted(in) == format_filename(in.product, in.id, in.width, in.ext)

\* generate_filename_and_output_dir: the name is formatted, then cleaned
BuildFilename ==
    /\ file_in.kind = "build"
    /\ ~filename.done
    /\ filename' = [done |-> TRUE,
                    raised |-> _clean_filename(Formatted(file_in)).raised,
                    value |-> _clean_filename(Formatted(file_in)).value]
    /\ UNCHANGED <<file_in, parsed, valid>>

ParseFilename ==
    /\ filename.done /\ ~filename.raised
    /\ ~parsed.done
    /\ parsed' = [done |-> TRUE, value |-> parse_filename(filename.value)]
    /\ UNCHANGED <<file_in, filename, valid>>

ValidateFilename ==
    /\ filename.done /\ ~filename.raised
    /\ ~valid.done
    /\ valid' = [done |-> TRUE, value |-> validate_filename(filename.value)]
    /\ UNCHANGED <<file_in, filename, parsed>>

\* SpecConc, the iteration as the interpreter runs it: the membership test
\* `unique_id not in self.generated_ids` succeeds; another thread may run
\* before the add
CheckFresh(t) ==
    /\ pc[t] = "loop"
    /\ attempts[t] < max_attempts
    /\ \E id \in DrawIds(length[t]) :
          /\ id \notin generated_ids
          /\ unique_id' = [unique_id EXCEPT ![t] = id]
    /\ pc' = [pc EXCEPT ![t] = "add"]
    /\ UNCHANGED <<generated_ids, length, attempts, pool_at_call, returned,
                   last, aux>>

\* SpecConc: self.generated_ids.add(unique_id); return unique_id
Add(t) ==
    /\ pc[t] = "add"
    /\ generated_ids' = Register(generated_ids, unique_id[t])
    /\ returned' = Append(returned, [id |-> unique_id[t], path |-> "draw"])
    /\ last' = CallRecord(t, unique_id[t], "draw", 0)
    /\ PopFrame(t)
    /\ UNCHANGED aux

\* A bound of SpecConc, which therefore explores a subset of the interleavings:
\* a call collides more than MaxRaceRetries times only while it runs alone
RaceBound(t) ==
    \/ attempts[t] < MaxRaceRetries
    \/ \A u \in Threads \ {t} : pc[u] = "idle"

\* arguments of the pure operations run between two calls
AuxArgs ==
    {<<"A", " ", "b">>,
     <<"a", "_", "A", "B", "1", "2", "C", "D", "3", "_", "S", "L", "Y", "_",
       "7", ".", "j", "p", "g">>}

AllIdle == \A t \in Threads : pc[t] = "idle"

\* _normalize_product_name reads and writes no attribute of the instance
NormalizeOp ==
    /\ AllIdle
    /\ \E arg \in AuxArgs :
          aux' = [op |-> "normalize", arg |-> arg,
                  out |-> _normalize_product_name(arg)]
    /\ UNCHANGED <<generated_ids, pc, length, attempts, unique_id,
                   pool_at_call, returned, last>>

\* parse_filename reads and writes no attribute of the instance
ParseOp ==
    /\ AllIdle
    /\ \E arg \in AuxArgs :
          aux' = [op |-> "parse", arg |-> arg, out |-> parse_filename(arg)]
    /\ UNCHANGED <<generated_ids, pc, length, attempts, unique_id,
                   pool_at_call, returned, last>>

\* validate_filename reads and writes no attribute of the instance
ValidateOp ==
    /\ AllIdle
    /\ \E arg \in AuxArgs :
          aux' = [op |-> "validate", arg |-> arg,
                  out |-> validate_filename(arg)]
    /\ UNCHANGED <<generated_ids, pc, length, attempts, unique_id,
                   pool_at_call, returned, last>>

-----------------------------------------------------------------------------
(* Specifications of the identifier generator *)

NoCall == [id |-> NoId, path |-> "none", thread |-> 0, length |-> 0,
           ms |-> 0, before |-> {}]

InitNaming ==
    /\ generated_ids = {}
    /\ pc = [t \in Threads |-> "idle"]
    /\ length = [t \in Threads |-> 0]
    /\ attempts = [t \in Threads |-> 0]
    /\ unique_id = [t \in Threads |-> NoId]
    /\ pool_at_call = [t \in Threads |-> {}]
    /\ returned = <<>>
    /\ last = NoCall
    /\ aux = NoAux

InitNormIdle == norm_in = <<>> /\ norm_out = Unset
InitFileIdle ==
    /\ file_in = NoFileInput
    /\ filename = [done |-> FALSE, raised |-> FALSE, value |-> <<>>]
    /\ parsed = Unset
    /\ valid = Unset

NoPathInput ==
    [source |-> <<>>, root_name |-> <<>>, dirs |-> <<>>, image |-> <<>>,
     width |-> 0, under |-> FALSE, given |-> FALSE]
NoName == [done |-> FALSE, raised |-> FALSE, value |-> <<>>]
NoPair == [done |-> FALSE, raised |-> FALSE, filename |-> <<>>,
           output_dir |-> <<>>, id |-> <<>>]
InitPathIdle ==
    /\ path_in = NoPathInput
    /\ extracted = NoName
    /\ generated = NoPair

NoFile == [width |-> 0, height |-> 0, mode |-> "none", decodes |-> FALSE]
NoImageInput ==
    [given |-> FALSE, file |-> NoFile, call |-> "none", requested |-> <<>>,
     writable |-> FALSE]
NoImageOutput ==
    [done |-> FALSE, raised |-> FALSE, strategy |-> "none",
     encoding |-> "none", target_size |-> <<>>, image |-> <<>>]
InitImageIdle == img_in = NoImageInput /\ img_out = NoImageOutput

NoCliArgs ==
    [parse_ok |-> FALSE, use_config |-> FALSE, source_given |-> FALSE,
     output_given |-> FALSE, config_module |-> "none", size |-> <<>>,
     bg_color |-> <<>>, source_exists |-> FALSE, directory |-> <<>>]
NoCallArgs == [given |-> FALSE, target_size |-> <<>>, bg_color |-> <<>>]

InitBatchIdle ==
    /\ entry = "none"
    /\ cli_args = NoCliArgs
    /\ call_args = NoCallArgs
    /\ batch_pc = "idle"
    /\ image_files = <<>>
    /\ index = 0
    /\ processed_count = 0
    /\ errors = <<>>
    /\ attempted = <<>>
    /\ exit_status = -1

NoResponse == [done |-> FALSE, status |-> 0, processed_images |-> <<>>]
NoRequest == [given |-> FALSE, configured |-> FALSE, products |-> <<>>]

InitRequestIdle ==
    /\ request = NoRequest
    /\ req_pc = "idle"
    /\ product_idx = 0
    /\ pair_idx = 0
    /\ processed_variations = <<>>
    /\ results = <<>>
    /\ response = NoResponse
    /\ tmp_files = {}
    /\ blobs = <<>>
    /\ invoked = <<>>

InitOthersIdle ==
    InitPathIdle /\ InitImageIdle /\ InitBatchIdle /\ InitRequestIdle

Init == InitNaming /\ InitNormIdle /\ InitFileIdle /\ InitOthersIdle

Next ==
    \/ Call(1) /\ UNCHANGED outside_naming
    \/ DrawCollide(1) /\ UNCHANGED outside_naming
    \/ Issue(1) /\ UNCHANGED outside_naming
    \/ Fallback(1) /\ UNCHANGED outside_naming
    \/ NormalizeOp /\ UNCHANGED outside_naming
    \/ ParseOp /\ UNCHANGED outside_naming
    \/ ValidateOp /\ UNCHANGED outside_naming

Spec == Init /\ [][Next]_vars

NextConc ==
    \/ \E t \in Threads : Call(t) /\ UNCHANGED outside_naming
    \/ \E t \in Threads :
          RaceBound(t) /\ DrawCollide(t) /\ UNCHANGED outside_naming
    \/ \E t \in Threads : CheckFresh(t) /\ UNCHANGED outside_naming
    \/ \E t \in Threads : Add(t) /\ UNCHANGED outside_naming
    \/ \E t \in Threads : Fallback(t) /\ UNCHANGED outside_naming

SpecConc == Init /\ [][NextConc]_vars

NextNorm == Normalize /\ UNCHANGED outside_norm

InitSpecNorm == InitNorm /\ InitNaming /\ InitFileIdle /\ InitOthersIdle

SpecNorm == InitSpecNorm /\ [][NextNorm]_vars

NextFile ==
    \/ BuildFilename /\ UNCHANGED outside_file
    \/ ParseFilename /\ UNCHANGED outside_file
    \/ ValidateFilename /\ UNCHANGED outside_file

InitSpecFile == InitFile /\ InitNaming /\ InitNormIdle /\ InitOthersIdle

SpecFile == InitSpecFile /\ [][NextFile]_vars

-----------------------------------------------------------------------------
(* Properties *)

\* C1: on one NamingConvention instance no two calls of _generate_unique_id
\* return the same identifier, the calls that end in the timestamp fallback
\* included.
IssuedIdsDistinct ==
    \A i, j \in DOMAIN returned : i # j => returned[i].id # returned[j].id

\* C2: with several threads on the one instance, the membership test and the
\* add of _generate_unique_id act as one atomic step (the identifier a thread
\* is about to add is still absent from the pool), and no two calls that
\* return a drawn identifier return the same one.
CheckThenAddAtomic ==
    /\ \A t \in Threads : pc[t] = "add" => unique_id[t] \notin generated_ids
    /\ \A i, j \in DOMAIN returned :
          (i # j /\ returned[i].path = "draw" /\ returned[j].path = "draw")
              => returned[i].id # returned[j].id

AllDigits(s) == \A i \in 1..Len(s) : s[i] \in Range(digits)

ReturnsAsSpecified(t) ==
    IF attempts[t] < max_attempts
    THEN /\ last'.path = "draw"
         /\ last'.id \in [1..length[t] -> Range(alphanumeric_chars)]
         /\ last'.id \notin generated_ids
         /\ returned' = Append(returned, [id |-> last'.id, path |-> "draw"])
    ELSE /\ attempts[t] = max_attempts
         /\ last'.path = "fallback"
         /\ Len(last'.id) = length[t]
         /\ AllDigits(last'.id)
         /\ int_digits(last'.id) = last'.ms % Pow10(length[t])
         /\ returned' = Append(returned, [id |-> last'.id, path |-> "fallback"])

\* C3: a call of _generate_unique_id makes at most 1000 draw attempts and a
\* call in progress can always take its next step; it returns the first draw
\* that is not in the pool, and after 1000 colliding draws it returns the
\* milliseconds modulo 10^length, zero-padded to exactly `length` digits.
GenerateTerminates ==
    /\ [](\A t \in Threads :
            /\ attempts[t] <= max_attempts
            /\ pc[t] = "loop" =>
                  ENABLED (DrawCollide(t) \/ Issue(t) \/ Fallback(t)))
    /\ [][\A t \in Threads :
            (pc[t] = "loop" /\ pc'[t] = "idle") => ReturnsAsSpecified(t)]_vars

\* C3 witness: a call returned the fallback and the zero padding applied
FallbackPadded ==
    /\ last.path = "fallback"
    /\ Len(DecimalDigits(last.ms % Pow10(last.length))) < last.length

\* C4: a call that took the timestamp fallback leaves generated_ids as it was
\* when the call started; a call that returned a draw returned an identifier
\* that was absent from the pool and added exactly that identifier.
FallbackLeavesPool ==
    /\ last.path = "fallback" => generated_ids = last.before
    /\ last.path = "draw" =>
          /\ last.id \notin last.before
          /\ generated_ids = last.before \cup {last.id}

\* C4 witness: a fallback identifier was returned and is not in the pool
FallbackNotRegistered ==
    /\ last.path = "fallback"
    /\ last.id \notin generated_ids
    /\ generated_ids # {}

\* C5: generated_ids is empty at construction and no step of any operation
\* removes an identifier from it.
PoolOnlyGrows ==
    /\ generated_ids = {}
    /\ [][generated_ids \subseteq generated_ids']_vars

\* C5 witness: two identifiers are in the pool and a pure operation has run
PoolGrewThenParsed ==
    /\ Cardinality(generated_ids) >= 2
    /\ aux.op = "parse"

NoDoubleUnderscore(s) ==
    \A i \in 1..(Len(s) - 1) : ~(s[i] = "_" /\ s[i + 1] = "_")

\* C6: the result of _normalize_product_name consists only of lowercase ASCII
\* letters, digits, hyphens and underscores, and holds no two consecutive
\* underscores.
NormalizedAlphabet ==
    norm_out.done =>
        /\ Range(norm_out.value) \subseteq
              Range(ascii_lowercase) \cup Range(digits) \cup {"-", "_"}
        /\ NoDoubleUnderscore(norm_out.value)

\* C7: the result of _normalize_product_name has at most 50 characters, and
\* when the cleaned string is longer than 50 it is exactly the first 50
\* characters of the cleaned string.
NormalizedLength ==
    norm_out.done =>
        /\ Len(norm_out.value) <= max_product_len
        /\ LET cleaned == normalize_cleaned(norm_in) IN
           Len(cleaned) > max_product_len =>
               norm_out.value = SubSeq(cleaned, 1, max_product_len)

\* C7 witness: a cleaned name longer than 50 characters was cut
NormalizedCut ==
    /\ norm_out.done
    /\ Len(normalize_cleaned(norm_in)) > max_product_len

\* C29: _normalize_product_name is idempotent: normalising its result again
\* returns the result unchanged; the result neither starts nor ends with
\* '_', also when the cut to 50 characters applies.
NormalizeIdempotent ==
    norm_out.done =>
        /\ _normalize_product_name(norm_out.value) = norm_out.value
        /\ norm_out.value # <<>> =>
              /\ norm_out.value[1] # "_"
              /\ norm_out.value[Len(norm_out.value)] # "_"

AfterLastDot(s) == SubSeq(s, Max(DotPositions(s)) + 1, Len(s))
BeforeLastDot(s) == SubSeq(s, 1, Max(DotPositions(s)) - 1)
IsPrefix(a, b) == Len(a) <= Len(b) /\ a = SubSeq(b, 1, Len(a))

\* C8: the sanitised name built from "{product}_{id}_SLY_{width}.{ext}" has at
\* most 200 characters and ends in '.' and the extension as given; what the
\* limit removes is removed from the end of the name portion.
BuiltNameBounded ==
    (file_in.kind = "build" /\ filename.done) =>
        /\ ~filename.raised
        /\ Len(filename.value) <= max_filename_len
        /\ DotPositions(filename.value) # {}
        /\ AfterLastDot(filename.value) = file_in.ext
        /\ IsPrefix(BeforeLastDot(filename.value),
                    BeforeLastDot(clean_chars(Formatted(file_in))))

\* C8 witness: a name longer than 200 characters after sanitising was built
BuiltNameCut ==
    /\ file_in.kind = "build"
    /\ filename.done
    /\ Len(clean_chars(Formatted(file_in))) > max_filename_len

\* C9: when the formatted name of a product name, a 7-character [A-Z0-9]
\* identifier, a non-negative width and an extension is left unchanged by
\* the sanitiser, parse_filename of the built name returns exactly these
\* four components.
ParseRoundTrip ==
    (/\ file_in.kind = "build"
     /\ filename.done
     /\ parsed.done
     /\ file_in.id \in [1..7 -> IdClass]
     /\ file_in.width >= 0
     /\ filename.value = Formatted(file_in))
        => parsed.value = [product_name |-> file_in.product,
                           unique_id |-> file_in.id,
                           width |-> file_in.width,
                           extension |-> file_in.ext]

\* s is  product _ id _SLY_ digits . extension  with a product of a
\* characters and d digits, followed by nl (0 or 1) newline
Decomposes(s, a, d, nl) ==
    /\ a >= 1 /\ d >= 1
    /\ Len(s) - nl >= a + 14 + d + 1
    /\ s[a + 1] = "_"
    /\ SubSeq(s, a + 9, a + 13) = <<"_", "S", "L", "Y", "_">>
    /\ SubSeq(s, a + 2, a + 8) \in [1..7 -> Range(ascii_uppercase) \cup Range(digits)]
    /\ AllDigits(SubSeq(s, a + 14, a + 13 + d))
    /\ s[a + 14 + d] = "."
    /\ "\n" \notin Range(SubSeq(s, 1, a))
    /\ "\n" \notin Range(SubSeq(s, a + 15 + d, Len(s) - nl))
    /\ nl = 1 => s[Len(s)] = "\n"

Components(s, a, d, nl) ==
    [product_name |-> SubSeq(s, 1, a),
     unique_id |-> SubSeq(s, a + 2, a + 8),
     width |-> int_digits(SubSeq(s, a + 14, a + 13 + d)),
     extension |-> SubSeq(s, a + 15 + d, Len(s) - nl)]

\* the triples <<a, d, nl>> that decompose s; only the positions followed by
\* "_" can end a product name
Decompositions(s) ==
    UNION {{x \in {a} \X (1..Len(s)) \X (0..1) :
                Decomposes(s, x[1], x[2], x[3])} :
           a \in {k \in 1..(Len(s) - 1) : s[k + 1] = "_"}}

\* C10: parse_filename returns a record for every string: the sentinel when
\* the string does not match the pattern, and otherwise the components of
\* the match with the longest product name, the width as an integer.
ParseTotal ==
    parsed.done =>
        LET D == Decompositions(filename.value) IN
        IF D = {}
        THEN parsed.value = Sentinel
        ELSE \E x \in D :
                /\ \A y \in D : y[1] <= x[1]
                /\ parsed.value = Components(filename.value, x[1], x[2], x[3])

\* C10 witness: a name that does not follow the convention was parsed
ParsedUnknown ==
    /\ parsed.done
    /\ filename.value # <<>>
    /\ parsed.value = Sentinel

-----------------------------------------------------------------------------
(* Paths: _extract_product_name_from_path and                             *)
(* generate_filename_and_output_dir                                       *)

\* A pathlib path is modelled by its `parts`: a sequence of components, each
\* a string; an absolute path starts with the component "/".
Anchor == <<"/">>

is_absolute(path) == path # <<>> /\ path[1] = Anchor

\* PurePath.name: the last component, '' for '.' and for '/'
path_name(path) ==
    IF path = <<>> \/ path = <<Anchor>> THEN <<>> ELSE path[Len(path)]

\* PurePath.relative_to(other): the components after `other`; ValueError when
\* `other` is not a leading part of the path, and when `other` is '.' and
\* the path is absolute
relative_to(path, other) ==
    IF other = <<>>
    THEN IF is_absolute(path) THEN [raised |-> TRUE, parts |-> <<>>]
         ELSE [raised |-> FALSE, parts |-> path]
    ELSE IF Len(other) <= Len(path) /\ SubSeq(path, 1, Len(other)) = other
         THEN [raised |-> FALSE,
               parts |-> SubSeq(path, Len(other) + 1, Len(path))]
         ELSE [raised |-> TRUE, parts |-> <<>>]

\* '_'.join(parts)
RECURSIVE join_underscore(_)
join_underscore(parts) ==
    IF parts = <<>> THEN <<>>
    ELSE IF Len(parts) = 1 THEN parts[1]
    ELSE parts[1] \o <<"_">> \o join_underscore(Tail(parts))

folder_parts_with_file(path_parts) == path_parts

\* path_parts[:-1]
folder_parts(path_parts) == SubSeq(path_parts, 1, Len(path_parts) - 1)

extract_reraises(image_path, source_dir) ==
    LET rel == relative_to(image_path, source_dir) IN
    IF rel.raised THEN [raised |-> TRUE, value |-> <<>>]
    ELSE [raised |-> FALSE,
          value |-> _normalize_product_name(
                        IF Len(rel.parts) > 1
                        THEN join_underscore(folder_parts(rel.parts))
                        ELSE path_name(source_dir))]

\* the ValueError of relative_to is caught; nothing else is raised
_extract_product_name_from_path(image_path, source_dir) ==
    LET rel == relative_to(image_path, source_dir)
        raw == IF rel.raised THEN path_name(source_dir)
               ELSE IF Len(rel.parts) > 1
                    THEN join_underscore(folder_parts(rel.parts))
                    ELSE path_name(source_dir)
    IN [raised |-> FALSE, value |-> _normalize_product_name(raw)]

\* f"{source_dir.name}_outputs"
_generate_output_dir_name(source_dir) ==
    path_name(source_dir) \o <<"_", "o", "u", "t", "p", "u", "t", "s">>

\* the default of the `length` parameter of _generate_unique_id
default_id_length == 7

\* the identifiers drawn where a whole handler is one step: a sample of the
\* draws of default length
SampleDraws == {[i \in 1..default_id_length |-> c] : c \in DrawChars}

\* One call of _generate_unique_id() from pool to pool2 returning id: a draw
\* that is not in the pool is registered and returned, or, after
\* max_attempts draws that are in the pool, the timestamp is returned and
\* the pool is left as it was.
GenerateUniqueId(pool, id, pool2) ==
    \/ /\ id \in SampleDraws \ pool
       /\ pool2 = Register(pool, id)
    \/ /\ pool # {}
       /\ \E ms \in 0..MaxTimeMs : id = TimestampId(ms, default_id_length)
       /\ pool2 = pool

jpg == <<"j", "p", "g">>

(* SpecPath: the two operations applied to bounded paths *)

\* directories between the root and the file: at most MaxDirs
MaxDirs == 2

Shop == <<"M", "y", " ", "S", "h", "o", "p", "!">>
Data == <<"d">>
DirNames ==
    {<<"S", "h", "o", "e">>, <<"r", "e", "d", " ", "4">>, <<".", ".">>}
FileNames ==
    {<<"i", ".", "j", "p", "g">>, <<"a", " ", "b", ".", "p", "n", "g">>}

\* source roots with their directory names: '.', '/', '/d/My Shop!',
\* 'My Shop!' and 'My Shop!/Shoe'
SourceRoots ==
    {[path |-> <<>>, name |-> <<>>],
     [path |-> <<Anchor>>, name |-> <<>>],
     [path |-> <<Anchor, Data, Shop>>, name |-> Shop],
     [path |-> <<Shop>>, name |-> Shop],
     [path |-> <<Shop, <<"S", "h", "o", "e">>>>, name |-> <<"S", "h", "o", "e">>]}

DirSeqs == UNION {[1..k -> DirNames] : k \in 0..MaxDirs}

\* images at source/dirs.../file
UnderInputs ==
    {[source |-> s.path, root_name |-> s.name, dirs |-> d,
      image |-> s.path \o d \o <<f>>, width |-> w, under |-> TRUE,
      given |-> TRUE] :
        s \in SourceRoots, d \in DirSeqs, f \in FileNames, w \in WidthSamples}

\* images that are not under the root: in a sibling directory, in a directory
\* whose name only starts like the root's, in the parent, absolute against a
\* relative root and against '.', relative against an absolute root
OutsidePaths ==
    {<<<<Anchor, Data, Shop>>, <<Anchor, Data, <<"S", "h", "o", "e">>>>>>,
     <<<<Anchor, Data, Shop>>, <<Anchor, Data, Shop \o <<"s">>>>>>,
     <<<<Shop, <<"S", "h", "o", "e">>>>, <<Shop>>>>,
     <<<<Shop>>, <<Anchor, Shop>>>>,
     <<<<>>, <<Anchor, Data>>>>,
     <<<<Anchor, Data, Shop>>, <<Shop>>>>}

OutsideInputs ==
    {[source |-> o[1], root_name |-> path_name(o[1]), dirs |-> <<>>,
      image |-> o[2] \o <<f>>, width |-> w, under |-> FALSE,
      given |-> TRUE] :
        o \in OutsidePaths, f \in FileNames, w \in WidthSamples}

\* the instance has issued nothing yet, or one identifier
InitPath ==
    /\ path_in \in UnderInputs \cup OutsideInputs
    /\ extracted = NoName
    /\ generated = NoPair
    /\ generated_ids \in {{}} \cup {{id} : id \in SampleDraws}
    /\ pc = [t \in Threads |-> "idle"]
    /\ length = [t \in Threads |-> 0]
    /\ attempts = [t \in Threads |-> 0]
    /\ unique_id = [t \in Threads |-> NoId]
    /\ pool_at_call = [t \in Threads |-> {}]
    /\ returned = <<>>
    /\ last = NoCall
    /\ aux = NoAux

ExtractProductName ==
    /\ path_in.given
    /\ ~extracted.done
    /\ extracted' =
          [done |-> TRUE,
           raised |-> _extract_product_name_from_path(
                          path_in.image, path_in.source).raised,
           value |-> _extract_product_name_from_path(
                         path_in.image, path_in.source).value]
    /\ UNCHANGED <<path_in, generated, naming_vars>>

\* f"image_{fallback_id}_SLY_{target_width}.jpg"
fallback_filename(id, width) ==
    <<"i", "m", "a", "g", "e", "_">> \o id \o SLY \o str_int(width)
    \o <<".">> \o jpg

\* generate_filename_and_output_dir: the try block, and the except block when
\* a step of the try block raised
GenerateFilenameAndOutputDir ==
    /\ path_in.given
    /\ ~generated.done
    /\ \E id \in SampleDraws \cup
                 {TimestampId(ms, default_id_length) : ms \in 0..MaxTimeMs},
          pool2 \in {generated_ids} \cup
                    {Register(generated_ids, d) : d \in SampleDraws} :
          LET product == _extract_product_name_from_path(
                             path_in.image, path_in.source)
              cleaned == _clean_filename(
                             format_filename(product.value, id,
                                             path_in.width, jpg))
          IN IF product.raised
             THEN \E fallback_id \in SampleDraws \cup
                        {TimestampId(ms, default_id_length) :
                            ms \in 0..MaxTimeMs} :
                     /\ GenerateUniqueId(generated_ids, fallback_id,
                                         generated_ids')
                     /\ generated' =
                           [done |-> TRUE, raised |-> FALSE,
                            filename |->
                                fallback_filename(fallback_id, path_in.width),
                            output_dir |->
                                _generate_output_dir_name(path_in.source),
                            id |-> fallback_id]
             ELSE /\ GenerateUniqueId(generated_ids, id, pool2)
                  /\ IF cleaned.raised
                     THEN \E fallback_id \in SampleDraws \cup
                                {TimestampId(ms, default_id_length) :
                                    ms \in 0..MaxTimeMs} :
                             /\ GenerateUniqueId(pool2, fallback_id,
                                                 generated_ids')
                             /\ generated' =
                                   [done |-> TRUE, raised |-> FALSE,
                                    filename |-> fallback_filename(
                                        fallback_id, path_in.width),
                                    output_dir |-> _generate_output_dir_name(
                                        path_in.source),
                                    id |-> fallback_id]
                     ELSE /\ generated_ids' = pool2
                          /\ generated' =
                                [done |-> TRUE, raised |-> FALSE,
                                 filename |-> cleaned.value,
                                 output_dir |-> _generate_output_dir_name(
                                     path_in.source),
                                 id |-> id]
    /\ UNCHANGED <<path_in, extracted, pc, length, attempts, unique_id,
                   pool_at_call, returned, last, aux>>

outside_path == <<norm_vars, file_vars, image_vars, batch_vars, request_vars>>

NextPath ==
    \/ ExtractProductName /\ UNCHANGED outside_path
    \/ GenerateFilenameAndOutputDir /\ UNCHANGED outside_path

InitSpecPath ==
    /\ InitPath /\ InitNormIdle /\ InitFileIdle /\ InitImageIdle
    /\ InitBatchIdle /\ InitRequestIdle

SpecPath == InitSpecPath /\ [][NextPath]_vars

(* Properties of the path operations *)

\* the names of dirs with one '_' between neighbours
RECURSIVE UnderscoreJoined(_)
UnderscoreJoined(dirs) ==
    IF Len(dirs) = 1 THEN dirs[1]
    ELSE UnderscoreJoined(SubSeq(dirs, 1, Len(dirs) - 1)) \o <<"_">>
         \o dirs[Len(dirs)]

\* C11: for an image under the source root, _extract_product_name_from_path
\* returns the normalised name of the root directory when the image sits
\* directly in the root, and otherwise the normalisation of the directory
\* names between the root and the file joined by '_', in path order, the file
\* name left out.
ExtractsJoinedFolders ==
    (path_in.under /\ extracted.done) =>
        /\ ~extracted.raised
        /\ extracted.value =
              _normalize_product_name(
                  IF path_in.dirs = <<>> THEN path_in.root_name
                  ELSE UnderscoreJoined(path_in.dirs))

\* C11 witness: the name of an image two directories below a named root was
\* extracted, and it is not the root's name
NestedImageNamed ==
    /\ path_in.under /\ extracted.done
    /\ Len(path_in.dirs) = 2
    /\ path_in.root_name # <<>>
    /\ extracted.value # <<>>
    /\ extracted.value # _normalize_product_name(path_in.root_name)

\* C12: for an image path that is not under the source root,
\* _extract_product_name_from_path raises nothing and returns the normalised
\* name of the root directory; generate_filename_and_output_dir raises
\* nothing and returns a file name and the output directory name for every
\* image path and root.
NamingFailsOpen ==
    /\ (~path_in.under /\ extracted.done) =>
          /\ ~extracted.raised
          /\ extracted.value = _normalize_product_name(path_in.root_name)
    /\ generated.done =>
          /\ ~generated.raised
          /\ generated.filename # <<>>
          /\ generated.output_dir =
                path_in.root_name \o <<"_", "o", "u", "t", "p", "u", "t", "s">>

\* C12 witness: for an image outside a named root both operations returned
FellBackToRootName ==
    /\ path_in.given /\ ~path_in.under
    /\ path_in.root_name # <<>>
    /\ extracted.done /\ generated.done

\* C28: the file name generate_filename_and_output_dir returns is accepted
\* by validate_filename and parse_filename gives back its components: the
\* identifier issued for the call, the target width, and the product name
\* extracted from the path, also when that name is empty.
GeneratedNameParsesBack ==
    generated.done =>
        LET parts == parse_filename(generated.filename)
            product == _extract_product_name_from_path(
                           path_in.image, path_in.source).value
        IN /\ validate_filename(generated.filename)
           /\ parts # Sentinel
           /\ parts.unique_id = generated.id
           /\ parts.width = path_in.width
           /\ parts.product_name = product

-----------------------------------------------------------------------------
(* ImageProcessor (src/src/image_processor.py)                             *)

\* An image is its size, its colour mode and where its pixels come from:
\*   origin "source"   the pixels of the decoded file
\*   origin "resized"  the result of resampling the source to another size
\*   origin "canvas"   Image.new filled with the background colour, with the
\*                     content (a source or resized image of content_width x
\*                     content_height) pasted at (offset_x, offset_y)
Decoded(w, h, mode) ==
    [width |-> w, height |-> h, mode |-> mode, origin |-> "source",
     content_origin |-> "source", content_width |-> w, content_height |-> h,
     offset_x |-> 0, offset_y |-> 0]

NoImage == Decoded(0, 0, "none")

\* img.convert('RGB')
convert_rgb(img) == [img EXCEPT !.mode = "RGB"]

\* the pixel of img at column x and row y: the source pixel it is a copy of,
\* a resampled pixel, or the background
Pixel(img, x, y) ==
    IF img.origin = "canvas"
    THEN IF /\ img.offset_x <= x /\ x < img.offset_x + img.content_width
            /\ img.offset_y <= y /\ y < img.offset_y + img.content_height
         THEN <<img.content_origin, x - img.offset_x, y - img.offset_y>>
         ELSE <<"background", 0, 0>>
    ELSE <<img.origin, x, y>>

\* the triples (original, side, target) of the model's sizes for which the
\* double-precision product side * (target / original) lies below the exact
\* quotient, which is an integer there
RoundsBelow == {<<22, 11, 30>>, <<11, 22, 30>>}

\* int(side * (target / original)) in double-precision arithmetic
ScaledSide(side, target, original) ==
    IF <<original, side, target>> \in RoundsBelow
    THEN ((side * target) \div original) - 1
    ELSE (side * target) \div original

\* Image.resize(size, LANCZOS): a copy when the size is the image's own,
\* ValueError when a side is below 1
resize(img, new_width, new_height) ==
    IF new_width = img.width /\ new_height = img.height
    THEN [raised |-> FALSE, image |-> img]
    ELSE IF new_width < 1 \/ new_height < 1
         THEN [raised |-> TRUE, image |-> NoImage]
         ELSE [raised |-> FALSE,
               image |-> [img EXCEPT !.width = new_width,
                                     !.height = new_height,
                                     !.origin = "resized",
                                     !.content_origin = "resized",
                                     !.content_width = new_width,
                                     !.content_height = new_height]]

\* Image.new('RGB', target_size, bg_color) followed by paste(content, (x, y))
pasted_on_canvas(target_width, target_height, content, x, y) ==
    [width |-> target_width, height |-> target_height, mode |-> "RGB",
     origin |-> "canvas", content_origin |-> content.origin,
     content_width |-> content.width, content_height |-> content.height,
     offset_x |-> x, offset_y |-> y]

\* abs(original_width / original_height - 1.0) < 0.1 in double precision:
\* for width >= height the comparison is exact; for width < height it holds
\* up to and including width / height = 0.9, since 1.0 - 0.9 rounds below 0.1
nearly_square(original_width, original_height) ==
    IF original_width >= original_height
    THEN 10 * (original_width - original_height) < original_height
    ELSE 10 * (original_height - original_width) <= original_height

strategy_never_square(original_width, original_height, target_width, target_height) ==
    IF target_height = 0 THEN [raised |-> TRUE, value |-> "none"]
    ELSE IF original_width > original_height
         THEN [raised |-> FALSE, value |-> "horizontal"]
         ELSE [raised |-> FALSE, value |-> "vertical"]

\* target_width / target_height raises ZeroDivisionError for a zero height
_determine_squareification_strategy(original_width, original_height, target_width, target_height) ==
    IF target_height = 0 THEN [raised |-> TRUE, value |-> "none"]
    ELSE IF nearly_square(original_width, original_height)
         THEN [raised |-> FALSE, value |-> "square"]
         ELSE IF original_width > original_height
              THEN [raised |-> FALSE, value |-> "horizontal"]
              ELSE [raised |-> FALSE, value |-> "vertical"]

_apply_squareification_strategy(img, strategy, target_width, target_height) ==
    IF strategy = "square" THEN [raised |-> FALSE, image |-> img]
    ELSE IF strategy = "horizontal"
    THEN LET new_width == target_width
             new_height == ScaledSide(img.height, target_width, img.width)
             resized_img == resize(img, new_width, new_height)
             y_offset == (target_height - new_height) \div 2
         IN IF resized_img.raised \/ target_width < 0 \/ target_height < 0
            THEN [raised |-> TRUE, image |-> NoImage]
            ELSE [raised |-> FALSE,
                  image |-> pasted_on_canvas(target_width, target_height,
                                             resized_img.image, 0, y_offset)]
    ELSE IF strategy = "vertical"
    THEN LET new_width == ScaledSide(img.width, target_height, img.height)
             new_height == target_height
             resized_img == resize(img, new_width, new_height)
             x_offset == (target_width - new_width) \div 2
         IN IF resized_img.raised \/ target_width < 0 \/ target_height < 0
            THEN [raised |-> TRUE, image |-> NoImage]
            ELSE [raised |-> FALSE,
                  image |-> pasted_on_canvas(target_width, target_height,
                                             resized_img.image, x_offset, 0)]
    ELSE [raised |-> TRUE, image |-> NoImage]

NotWritten ==
    [raised |-> TRUE, image |-> NoImage, strategy |-> "none",
     encoding |-> "none"]

\* squareify_image on a file: file.decodes says whether Image.open succeeds,
\* writable whether save succeeds; every exception is logged and raised again
squareify_image(file, target_size, writable) ==
    IF ~file.decodes \/ Len(target_size) # 2 THEN NotWritten
    ELSE LET img == IF file.mode # "RGB"
                    THEN convert_rgb(Decoded(file.width, file.height, file.mode))
                    ELSE Decoded(file.width, file.height, file.mode)
             strategy == _determine_squareification_strategy(
                             img.width, img.height, target_size[1],
                             target_size[2])
             squared_image == _apply_squareification_strategy(
                                  img, strategy.value, target_size[1],
                                  target_size[2])
         IN IF strategy.raised \/ squared_image.raised \/ ~writable
            THEN NotWritten
            ELSE [raised |-> FALSE, image |-> squared_image.image,
                  strategy |-> strategy.value,
                  encoding |-> IF strategy.value = "square"
                               THEN "default" ELSE "quality95"]

\* routes/images.py: the target size the handler derives from the image
auto_target_size(original_width, original_height) ==
    IF original_width > original_height
    THEN <<original_width, original_width>>
    ELSE IF original_height > original_width
         THEN <<original_height, original_height>>
         ELSE <<original_width, original_height>>

(* SpecImage: squareify_image applied to bounded images *)

\* widths and heights of 1..MaxSide, and the sizes of SizeSamples
MaxSide == 12

Sides == 1..MaxSide
SizeSamples ==
    {<<1600, 900>>, <<900, 1600>>, <<105, 100>>, <<100, 109>>, <<750, 750>>,
     <<22, 11>>, <<11, 22>>, <<1000, 1>>}
ColourModes == {"RGB", "RGBA"}

\* target sizes a caller asks for: the default of the command line, small,
\* not square, and with a zero side
ExplicitTargets ==
    {<<750, 750>>, <<30, 30>>, <<5, 5>>, <<8, 3>>, <<3, 8>>, <<1, 1>>,
     <<5, 0>>}

ImageFiles ==
    {[width |-> w, height |-> h, mode |-> m, decodes |-> TRUE] :
        w \in Sides, h \in Sides, m \in ColourModes}
    \cup {[width |-> d[1], height |-> d[2], mode |-> "RGB", decodes |-> TRUE] :
             d \in SizeSamples}
    \cup {[width |-> 0, height |-> 0, mode |-> "none", decodes |-> FALSE]}

\* call "auto": the request handler, which derives the target from the image;
\* call "explicit": a caller that passes the target it was given
ImageInputs ==
    {[given |-> TRUE, file |-> f, call |-> "auto", requested |-> <<>>,
      writable |-> wr] : f \in ImageFiles, wr \in BOOLEAN}
    \cup {[given |-> TRUE, file |-> f, call |-> "explicit", requested |-> t,
           writable |-> wr] :
             f \in ImageFiles, t \in ExplicitTargets, wr \in BOOLEAN}

InitImage ==
    /\ img_in \in ImageInputs
    /\ img_out = NoImageOutput

\* the target size squareify_image is called with
TargetOf(in) ==
    IF in.call = "auto" THEN auto_target_size(in.file.width, in.file.height)
    ELSE in.requested

\* one image is processed: by the handler (which opens the image to derive
\* the target, then calls squareify_image) or with the requested target
Squareify ==
    /\ img_in.given
    /\ ~img_out.done
    /\ LET out == squareify_image(img_in.file, TargetOf(img_in),
                                  img_in.writable)
       IN img_out' = [done |-> TRUE, raised |-> out.raised,
                      strategy |-> out.strategy, encoding |-> out.encoding,
                      target_size |-> IF img_in.file.decodes
                                      THEN TargetOf(img_in) ELSE <<>>,
                      image |-> out.image]
    /\ UNCHANGED img_in

outside_image == <<naming_vars, norm_vars, file_vars, path_vars, batch_vars,
                   request_vars>>

NextImage == Squareify /\ UNCHANGED outside_image

InitSpecImage ==
    /\ InitImage /\ InitNaming /\ InitNormIdle /\ InitFileIdle
    /\ InitPathIdle /\ InitBatchIdle /\ InitRequestIdle

SpecImage == InitSpecImage /\ [][NextImage]_vars

(* Properties of squareify_image *)

\* the coordinates 0..n-1 for the sizes of Sides; for the larger samples the
\* ends and the neighbours of the marks
Coordinates(n, marks) ==
    IF n <= 2 * MaxSide THEN 0..(n - 1)
    ELSE {k \in UNION {{m - 1, m, m + 1} : m \in marks \cup {0, n - 1}} :
             0 <= k /\ k < n}

\* the image was decoded, processed and written
Processed(call) ==
    /\ img_out.done
    /\ img_in.call = call
    /\ img_in.file.decodes
    /\ img_in.writable

\* C13: an image with width = height processed in auto mode comes out with
\* the width and height of the input and with the input's pixels: it is not
\* resampled and no canvas is created.
SquareAutoUnchanged ==
    (Processed("auto") /\ img_in.file.width = img_in.file.height) =>
        /\ ~img_out.raised
        /\ img_out.image.width = img_in.file.width
        /\ img_out.image.height = img_in.file.height
        /\ img_out.image.origin = "source"
        /\ \A x \in Coordinates(img_in.file.width, {}),
              y \in Coordinates(img_in.file.height, {}) :
              Pixel(img_out.image, x, y) = <<"source", x, y>>

\* C13 witness: a square image of mode RGBA went through auto mode
SquareProcessedAuto ==
    /\ Processed("auto")
    /\ img_in.file.width = img_in.file.height
    /\ img_in.file.width > 1
    /\ img_in.file.mode = "RGBA"
    /\ ~img_out.raised

\* C14: an image with width > height processed in auto mode comes out as a
\* square of side width; the input's pixels are at (0, floor((width -
\* height) / 2)), not resampled; the rows above (floor((width - height) / 2)
\* of them) and below (the remaining ones) have the background colour.
HorizontalAutoPadded ==
    (Processed("auto") /\ img_in.file.width > img_in.file.height) =>
        LET w == img_in.file.width
            h == img_in.file.height
            top == (w - h) \div 2
        IN /\ ~img_out.raised
           /\ img_out.image.width = w
           /\ img_out.image.height = w
           /\ \A x \in Coordinates(w, {}), y \in Coordinates(h, {}) :
                 Pixel(img_out.image, x, y + top) = <<"source", x, y>>
           /\ \A x \in Coordinates(w, {}),
                 y \in Coordinates(w, {top, top + h}) :
                 (y < top \/ y >= top + h) =>
                     Pixel(img_out.image, x, y) = <<"background", 0, 0>>

\* C15: an image with height > width processed in auto mode comes out as a
\* square of side height; the input's pixels are at (floor((height -
\* width) / 2), 0), not resampled; the columns on the left (floor((height -
\* width) / 2) of them) and on the right (the remaining ones) have the
\* background colour.
VerticalAutoPadded ==
    (Processed("auto") /\ img_in.file.height > img_in.file.width) =>
        LET w == img_in.file.width
            h == img_in.file.height
            left == (h - w) \div 2
        IN /\ ~img_out.raised
           /\ img_out.image.width = h
           /\ img_out.image.height = h
           /\ \A x \in Coordinates(w, {}), y \in Coordinates(h, {}) :
                 Pixel(img_out.image, x + left, y) = <<"source", x, y>>
           /\ \A x \in Coordinates(h, {left, left + w}),
                 y \in Coordinates(h, {}) :
                 (x < left \/ x >= left + w) =>
                     Pixel(img_out.image, x, y) = <<"background", 0, 0>>

\* C16: in explicit-size mode, whatever the shape of the input, the image
\* squareify_image writes for a target (W, H) with positive sides has width W
\* and height H.
ExplicitSizeExact ==
    (/\ Processed("explicit")
     /\ img_in.requested[1] > 0 /\ img_in.requested[2] > 0) =>
        /\ ~img_out.raised
        /\ img_out.image.width = img_in.requested[1]
        /\ img_out.image.height = img_in.requested[2]

\* the strategy of the processed image, from its decoded dimensions
ClassifiedAs(strategy) ==
    /\ ~(img_in.requested[2] = 0)
    /\ _determine_squareification_strategy(
           img_in.file.width, img_in.file.height, img_in.requested[1],
           img_in.requested[2]).value = strategy

\* the canvas img holds content of cw x ch at (ox, oy) and the background
\* colour everywhere else
ContentPlaced(img, cw, ch, ox, oy) ==
    /\ img.origin = "canvas"
    /\ img.content_width = cw /\ img.content_height = ch
    /\ img.offset_x = ox /\ img.offset_y = oy
    /\ \A x \in Coordinates(img.width, {ox, ox + cw}),
          y \in Coordinates(img.height, {oy, oy + ch}) :
          IF ox <= x /\ x < ox + cw /\ oy <= y /\ y < oy + ch
          THEN Pixel(img, x, y) \in {<<"resized", x - ox, y - oy>>,
                                     <<"source", x - ox, y - oy>>}
          ELSE Pixel(img, x, y) = <<"background", 0, 0>>

\* C22: in explicit-size mode with target (W, H), a horizontal image (w, h)
\* is rescaled to (W, floor(h*W/w)) and pasted at (0, (H - floor(h*W/w)) //
\* 2), a vertical one is rescaled to (floor(w*H/h), H) and pasted at ((W -
\* floor(w*H/h)) // 2, 0), and every canvas pixel outside the pasted content
\* has the background colour.  Stated for targets with positive sides and
\* scaled sides of at least one pixel.
ExplicitContentPlaced ==
    LET w == img_in.file.width
        h == img_in.file.height
        W == img_in.requested[1]
        H == img_in.requested[2]
    IN (Processed("explicit") /\ W > 0 /\ H > 0) =>
          /\ (ClassifiedAs("horizontal") /\ (h * W) \div w >= 1) =>
                /\ ~img_out.raised
                /\ ContentPlaced(img_out.image, W, (h * W) \div w, 0,
                                 (H - ((h * W) \div w)) \div 2)
          /\ (ClassifiedAs("vertical") /\ (w * H) \div h >= 1) =>
                /\ ~img_out.raised
                /\ ContentPlaced(img_out.image, (w * H) \div h, H,
                                 (W - ((w * H) \div h)) \div 2, 0)

\* the classification the 10 % rule gives in exact arithmetic: square when
\* |w/h - 1| < 1/10, horizontal when not square and w/h > 1, else vertical
StrategyByRatio(w, h) ==
    IF 10 * (w - h) < h /\ 10 * (h - w) < h THEN "square"
    ELSE IF w > h THEN "horizontal" ELSE "vertical"

\* the image was decoded, classified, transformed and written
Written ==
    /\ img_out.done
    /\ img_in.file.decodes
    /\ ~img_out.raised

\* C23: the strategy of a written image is a function of its width and
\* height alone: square exactly when |width/height - 1| < 0.1, horizontal
\* when not square and width > height, vertical otherwise, whatever the
\* target size; for square the output is the input image with its
\* dimensions, not resized and not on a canvas.
ClassifiedBySourceOnly ==
    Written =>
        /\ img_out.strategy =
              StrategyByRatio(img_in.file.width, img_in.file.height)
        /\ (img_out.strategy = "square") =>
              /\ img_out.image.origin = "source"
              /\ img_out.image.width = img_in.file.width
              /\ img_out.image.height = img_in.file.height

\* C25: classification is symmetric under transposition: the written image
\* (w, h) is 'square' if and only if (h, w) is classified 'square', and
\* 'horizontal' if and only if (h, w) is classified 'vertical'.
TransposeSymmetric ==
    Written =>
        LET target == TargetOf(img_in)
            transposed == _determine_squareification_strategy(
                              img_in.file.height, img_in.file.width,
                              target[1], target[2]).value
        IN /\ img_out.strategy = "square" <=> transposed = "square"
           /\ img_out.strategy = "horizontal" <=> transposed = "vertical"

\* C26: for an image whose strategy is not square and a target (W, H) with
\* positive sides, squareify_image writes a canvas whose content is at least
\* one pixel wide and high and lies inside the canvas: no offset is
\* negative, and offset plus content extent does not exceed the canvas on
\* either axis.
ContentInsideCanvas ==
    LET target == TargetOf(img_in)
        img == img_out.image
    IN (/\ img_out.done /\ img_in.file.decodes /\ img_in.writable
        /\ target[1] > 0 /\ target[2] > 0
        /\ ~nearly_square(img_in.file.width, img_in.file.height)) =>
          /\ ~img_out.raised
          /\ img.content_width >= 1 /\ img.content_height >= 1
          /\ img.offset_x >= 0 /\ img.offset_y >= 0
          /\ img.offset_x + img.content_width <= img.width
          /\ img.offset_y + img.content_height <= img.height

-----------------------------------------------------------------------------
(* The command line (src/src/main.py, src/utils/argument_parser.py) and    *)
(* BatchProcessor (src/src/batch_processor.py)                             *)

default_size == <<750, 750>>
default_bg_color == <<255, 255, 255>>

\* sys.exit(code) raises SystemExit; a returned tuple is a sequence
SystemExit(code) == [system_exit |-> TRUE, code |-> code, value |-> <<>>]
Returned(value) == [system_exit |-> FALSE, code |-> 0, value |-> value]

\* _get_config_from_file: the module config.config cannot be imported, or
\* its validate_config() is false, or it supplies the four values
_get_config_from_file(args) ==
    IF args.config_module = "missing" THEN SystemExit(1)
    ELSE IF args.config_module = "invalid" THEN SystemExit(1)
    ELSE Returned(<<"source_dir", "output_base_dir", default_size,
                    default_bg_color>>)

_get_config_from_args(args) ==
    IF ~args.source_given \/ ~args.output_given THEN SystemExit(1)
    ELSE Returned(<<"source_dir", "output_base_dir", args.size,
                    args.bg_color>>)

get_configuration(args) ==
    IF args.use_config \/ (~args.source_given /\ ~args.output_given)
    THEN _get_config_from_file(args)
    ELSE _get_config_from_args(args)

Exits(status) ==
    [exited |-> TRUE, status |-> status, call |-> NoCallArgs]

\* main() up to the call of process_batch: the exit status when the process
\* ends before, else the arguments of the call.  An exception that nothing
\* catches ends the process with status 1, argparse's own errors with 2.
main_until_batch(args) ==
    IF ~args.parse_ok THEN Exits(2)
    ELSE LET conf == get_configuration(args) IN
         IF conf.system_exit THEN Exits(0)
         \* source_dir, output_base_dir, bg_color = <four values>: ValueError
         ELSE IF Len(conf.value) # 3 THEN Exits(1)
         ELSE IF ~args.source_exists THEN Exits(1)
         ELSE [exited |-> FALSE, status |-> 0,
               call |-> [given |-> TRUE, target_size |-> conf.value[3],
                         bg_color |-> default_bg_color]]

\* sorted(key=name.lower()) of the files that are images: Python's sort is
\* stable, the keys are 1..MaxKey
MaxKey == 2

RECURSIVE SortedUpTo(_, _)
SortedUpTo(files, k) ==
    IF k = 0 THEN <<>>
    ELSE SortedUpTo(files, k - 1)
         \o SelectSeq(files, LAMBDA f : f.key = k)

\* FileManager.get_image_files(directory)
get_image_files(exists, directory) ==
    IF ~exists THEN <<>>
    ELSE SortedUpTo(SelectSeq(directory, LAMBDA f : f.is_image), MaxKey)

(* SpecBatch *)

\* files in the source directory: at most MaxImages
MaxImages == 3

\* a 5x5 image, an 8x3 image, a file with an image extension that does not
\* decode, and a file that is no image
DirectoryFiles ==
    {[key |-> 1, is_image |-> TRUE, width |-> 5, height |-> 5,
      mode |-> "RGB", decodes |-> TRUE],
     [key |-> 2, is_image |-> TRUE, width |-> 8, height |-> 3,
      mode |-> "RGBA", decodes |-> TRUE],
     [key |-> 1, is_image |-> TRUE, width |-> 0, height |-> 0,
      mode |-> "none", decodes |-> FALSE],
     [key |-> 2, is_image |-> FALSE, width |-> 0, height |-> 0,
      mode |-> "none", decodes |-> FALSE]}

Directories == UNION {[1..n -> DirectoryFiles] : n \in 0..MaxImages}

CommandLines ==
    {[parse_ok |-> po, use_config |-> uc, source_given |-> sg,
      output_given |-> og, config_module |-> cm, size |-> default_size,
      bg_color |-> default_bg_color, source_exists |-> se, directory |-> d] :
        po \in BOOLEAN, uc \in BOOLEAN, sg \in BOOLEAN, og \in BOOLEAN,
        cm \in {"missing", "invalid", "valid"}, se \in BOOLEAN,
        d \in {dd \in Directories : Len(dd) <= 1}}

\* a direct call BatchProcessor(source_dir, out).process_batch(size, colour)
LibraryCalls ==
    {[parse_ok |-> TRUE, use_config |-> FALSE, source_given |-> TRUE,
      output_given |-> TRUE, config_module |-> "none", size |-> sz,
      bg_color |-> default_bg_color, source_exists |-> se, directory |-> d] :
        sz \in {default_size, <<8, 8>>, <<>>}, se \in BOOLEAN,
        d \in Directories}

InitBatch ==
    /\ entry \in {"cli", "library"}
    /\ cli_args \in IF entry = "cli" THEN CommandLines ELSE LibraryCalls
    /\ batch_pc = "start"
    /\ call_args = NoCallArgs
    /\ image_files = <<>>
    /\ index = 0
    /\ processed_count = 0
    /\ errors = <<>>
    /\ attempted = <<>>
    /\ exit_status = -1

\* main(), lines 37-53: the process ends, or process_batch is called with the
\* colour as its first argument
MainStart ==
    /\ entry = "cli"
    /\ batch_pc = "start"
    /\ LET m == main_until_batch(cli_args) IN
       IF m.exited
       THEN /\ batch_pc' = "exited"
            /\ exit_status' = m.status
            /\ call_args' = NoCallArgs
       ELSE /\ batch_pc' = "process_batch"
            /\ exit_status' = exit_status
            /\ call_args' = m.call
    /\ UNCHANGED <<entry, cli_args, image_files, index, processed_count,
                   errors, attempted, generated_ids>>

\* a caller other than main constructs a BatchProcessor and calls
\* process_batch(target_size, bg_color)
LibraryCall ==
    /\ entry = "library"
    /\ batch_pc = "start"
    /\ batch_pc' = "process_batch"
    /\ call_args' = [given |-> TRUE, target_size |-> cli_args.size,
                     bg_color |-> cli_args.bg_color]
    /\ UNCHANGED <<entry, cli_args, image_files, index, processed_count,
                   errors, attempted, exit_status, generated_ids>>

\* main() after process_batch returned: "Traitement termine avec succes",
\* and the process ends with status 0
StatusAfterBatch == IF entry = "cli" THEN 0 ELSE exit_status

\* process_batch, lines 47-58: the images are listed; with no image the
\* method returns, else _process_images starts with processed_count = 0 and
\* errors = []
StartBatch ==
    /\ batch_pc = "process_batch"
    /\ LET files == get_image_files(cli_args.source_exists,
                                    cli_args.directory) IN
       /\ image_files' = files
       /\ IF files = <<>>
          THEN /\ batch_pc' = "returned"
               /\ exit_status' = StatusAfterBatch
          ELSE /\ batch_pc' = "loop"
               /\ exit_status' = exit_status
    /\ index' = 0
    /\ processed_count' = 0
    /\ errors' = <<>>
    /\ UNCHANGED <<entry, cli_args, call_args, attempted, generated_ids>>

\* what an iteration stored: the width in the generated file name
\* (target_size[0], line 89) and the size of the image squareify_image wrote
NothingStored == [name_width |-> -1, width |-> -1, height |-> -1]

Stored(file, outcome, writable) ==
    IF outcome # "ok" THEN NothingStored
    ELSE LET out == squareify_image(file, call_args.target_size, writable)
         IN [name_width |-> call_args.target_size[1],
             width |-> out.image.width, height |-> out.image.height]

Attempt(position, file, outcome, stored) ==
    [position |-> position, file |-> file,
     target_size |-> call_args.target_size, bg_color |-> call_args.bg_color,
     outcome |-> outcome, stored |-> stored]

\* what one iteration does with the image at `position`: target_size[0]
\* raises for an empty tuple; the name is generated, which draws an
\* identifier; mkdir and squareify_image may raise
ImageOutcome(file, mkdir_ok, writable) ==
    IF Len(call_args.target_size) = 0 THEN "error"
    ELSE IF ~mkdir_ok THEN "error"
    ELSE IF squareify_image(file, call_args.target_size, writable).raised
         THEN "error"
         ELSE "ok"

ProcessImageStopsAtError ==
    /\ batch_pc = "loop"
    /\ index < Len(image_files)
    /\ \E mkdir_ok \in BOOLEAN, writable \in BOOLEAN :
          LET file == image_files[index + 1]
              outcome == ImageOutcome(file, mkdir_ok, writable)
          IN /\ attempted' = Append(attempted,
                                    Attempt(index + 1, file, outcome,
                                            Stored(file, outcome, writable)))
             /\ IF outcome = "ok"
                THEN /\ processed_count' = processed_count + 1
                     /\ errors' = errors
                     /\ batch_pc' = batch_pc
                     /\ exit_status' = exit_status
                ELSE /\ processed_count' = processed_count
                     /\ errors' = Append(errors, index + 1)
                     /\ batch_pc' = "returned"
                     /\ exit_status' = StatusAfterBatch
    /\ index' = index + 1
    /\ IF Len(call_args.target_size) = 0
       THEN generated_ids' = generated_ids
       ELSE \E id \in SampleDraws \cup
                  {TimestampId(ms, default_id_length) : ms \in 0..MaxTimeMs} :
               GenerateUniqueId(generated_ids, id, generated_ids')
    /\ UNCHANGED <<entry, cli_args, call_args, image_files>>

\* _process_images, one iteration of the for loop (lines 84-110): the image
\* is processed and counted, or the exception is caught, logged and appended
\* to errors
ProcessImage ==
    /\ batch_pc = "loop"
    /\ index < Len(image_files)
    /\ \E mkdir_ok \in BOOLEAN, writable \in BOOLEAN :
          LET file == image_files[index + 1]
              outcome == ImageOutcome(file, mkdir_ok, writable)
          IN /\ attempted' = Append(attempted,
                                    Attempt(index + 1, file, outcome,
                                            Stored(file, outcome, writable)))
             /\ IF outcome = "ok"
                THEN /\ processed_count' = processed_count + 1
                     /\ errors' = errors
                ELSE /\ processed_count' = processed_count
                     /\ errors' = Append(errors, index + 1)
    /\ index' = index + 1
    /\ IF Len(call_args.target_size) = 0
       THEN generated_ids' = generated_ids
       ELSE \E id \in SampleDraws \cup
                  {TimestampId(ms, default_id_length) : ms \in 0..MaxTimeMs} :
               GenerateUniqueId(generated_ids, id, generated_ids')
    /\ UNCHANGED <<entry, cli_args, call_args, image_files, batch_pc,
                   exit_status>>

\* the loop is over: _process_images returns (processed_count, errors), the
\* summary is logged and process_batch returns
EndBatch ==
    /\ batch_pc = "loop"
    /\ index = Len(image_files)
    /\ batch_pc' = "returned"
    /\ exit_status' = StatusAfterBatch
    /\ UNCHANGED <<entry, cli_args, call_args, image_files, index,
                   processed_count, errors, attempted, generated_ids>>

batch_frame == <<pc, length, attempts, unique_id, pool_at_call, returned,
                 last, aux, norm_vars, file_vars, path_vars, image_vars,
                 request_vars>>

NextBatch ==
    \/ MainStart /\ UNCHANGED batch_frame
    \/ LibraryCall /\ UNCHANGED batch_frame
    \/ StartBatch /\ UNCHANGED batch_frame
    \/ ProcessImage /\ UNCHANGED batch_frame
    \/ EndBatch /\ UNCHANGED batch_frame

InitSpecBatch ==
    /\ InitBatch /\ InitNaming /\ InitNormIdle /\ InitFileIdle
    /\ InitPathIdle /\ InitImageIdle /\ InitRequestIdle

SpecBatch == InitSpecBatch /\ [][NextBatch]_vars

(* Properties of the batch and of the command line *)

\* C17: _process_images takes every image of the list exactly once, in list
\* order, whatever images fail: after k iterations the images 1..k have been
\* attempted and processed_count + len(errors) = k, and when the method
\* returns k is the number of images in the list.
BatchAttemptsEveryImage ==
    /\ Len(attempted) = index
    /\ \A k \in 1..Len(attempted) :
          /\ attempted[k].position = k
          /\ attempted[k].file = image_files[k]
    /\ processed_count + Len(errors) = index
    /\ processed_count =
          Cardinality({k \in 1..Len(attempted) : attempted[k].outcome = "ok"})
    /\ batch_pc = "returned" => index = Len(image_files)

\* C17 witness: the batch returned after an image failed and a later one was
\* processed
FailureThenSuccess ==
    /\ batch_pc = "returned"
    /\ Len(attempted) >= 2
    /\ attempted[1].outcome = "error"
    /\ attempted[Len(attempted)].outcome = "ok"
    /\ Len(errors) >= 1 /\ processed_count >= 1

\* the configuration is read from the config file
UsesConfigFile ==
    cli_args.use_config \/ (~cli_args.source_given /\ ~cli_args.output_given)

\* a condition under which no image can be processed: a command line argparse
\* rejects, an unusable config file, a missing source or output argument, a
\* source directory that does not exist
FatalCondition ==
    \/ ~cli_args.parse_ok
    \/ UsesConfigFile /\ cli_args.config_module # "valid"
    \/ ~UsesConfigFile /\ (~cli_args.source_given \/ ~cli_args.output_given)
    \/ ~cli_args.source_exists

CliEnded == entry = "cli" /\ batch_pc \in {"exited", "returned"}

\* C18: a run of the command line with valid arguments and an existing
\* source directory ends with a non-zero status when at least one image
\* failed and with status zero when every image succeeded.
CliStatusReflectsImages ==
    (CliEnded /\ ~FatalCondition) =>
        (exit_status # 0 <=> Len(errors) > 0)

\* C19: the command line ends with a non-zero status only under a fatal
\* condition; with valid arguments and an existing source directory the run
\* reaches the batch loop and ends with status zero, however many images
\* fail.
CliFailsOnlyWhenFatal ==
    CliEnded =>
        /\ exit_status # 0 => FatalCondition
        /\ ~FatalCondition => (call_args.given /\ exit_status = 0)

\* the size and the colour the command line configures
ConfiguredSize == IF UsesConfigFile THEN default_size ELSE cli_args.size
ConfiguredColour ==
    IF UsesConfigFile THEN default_bg_color ELSE cli_args.bg_color

\* C24: a run of the command line with valid arguments and an existing
\* source directory calls process_batch with the configured size and colour,
\* and every image of the directory is passed to squareify_image with that
\* target_size and bg_color; the width in each generated file name is the
\* first component of the size.
CliPassesSizeAndColour ==
    (CliEnded /\ ~FatalCondition) =>
        /\ call_args.given
        /\ call_args.target_size = ConfiguredSize
        /\ call_args.bg_color = ConfiguredColour
        /\ Len(attempted) =
              Len(get_image_files(cli_args.source_exists, cli_args.directory))
        /\ \A k \in 1..Len(attempted) :
              /\ attempted[k].target_size = ConfiguredSize
              /\ attempted[k].bg_color = ConfiguredColour
              /\ attempted[k].outcome = "ok" =>
                    attempted[k].stored.name_width = ConfiguredSize[1]

\* C27: for every image the batch processed, the width in the name of the
\* stored file (the number after _SLY_) is the width of the image that was
\* stored.
NameWidthIsImageWidth ==
    \A k \in 1..Len(attempted) :
        attempted[k].outcome = "ok" =>
            attempted[k].stored.name_width = attempted[k].stored.width

-----------------------------------------------------------------------------
(* The request handler (src/routes/images.py)                              *)

\* what can happen to one (url, variation) pair:
\*   "ok"               everything succeeds
\*   "download_raises"  requests.get raises
\*   "http_error"       the status of the download is not 200
\*   "corrupt"          the downloaded bytes do not decode as an image
\*   "unwritable"       squareify_image cannot write its output
\*   "upload_fails"     the upload raises
Fates ==
    {"ok", "download_raises", "http_error", "corrupt", "unwritable",
     "upload_fails"}

\* the temporary files of the pair k of product p
TmpIn(p, k) == <<p, k, "in">>
TmpOut(p, k) == <<p, k, "out">>

\* process_and_upload_image_variations, one iteration of its for loop, as the
\* record of what it did: the calls it made, the temporary files it left,
\* the blob it stored, and whether it raised
PairRun(p, k, pair, fate, configured) ==
    LET downloaded == fate \notin {"download_raises", "http_error"}
        file == [pair.file EXCEPT !.decodes = (fate # "corrupt")]
        opened == downloaded /\ file.decodes
        target_size == auto_target_size(file.width, file.height)
        squared == squareify_image(file, target_size, fate # "unwritable")
        squareified == opened /\ ~squared.raised
        uploaded == squareified /\ configured /\ fate # "upload_fails"
        \* tmp_in is created after the download (line 74), tmp_out after the
        \* image was opened (line 97)
        created == (IF downloaded THEN {TmpIn(p, k)} ELSE {})
                   \cup (IF opened THEN {TmpOut(p, k)} ELSE {})
        \* os.remove(tmp_out_path) follows the append (line 139),
        \* os.remove(tmp_in_path) is in the finally block (line 142)
        removed == (IF downloaded THEN {TmpIn(p, k)} ELSE {})
                   \cup (IF uploaded THEN {TmpOut(p, k)} ELSE {})
    IN [product |-> p, pair |-> k, fate |-> fate,
        raised |-> ~uploaded,
        squareify_calls |-> IF opened THEN 1 ELSE 0,
        id_calls |-> IF squareified THEN 1 ELSE 0,
        upload_calls |-> IF squareified THEN 1 ELSE 0,
        created |-> created,
        left_behind |-> created \ removed,
        variation |->
            [variation_name |-> pair.variation_name, size |-> target_size,
             azure_url |-> <<p, k>>,
             original_size |-> <<file.width, file.height>>],
        blob |-> [url |-> <<p, k>>, name_width |-> target_size[1],
                  width |-> squared.image.width,
                  height |-> squared.image.height]]

(* SpecRequest *)

\* products in a request and pairs in a product
MaxProducts == 2
MaxPairs == 2

PairSamples ==
    <<[url |-> "u1", variation_name |-> "main",
       file |-> [width |-> 8, height |-> 3, mode |-> "RGB",
                 decodes |-> TRUE]],
      [url |-> "u2", variation_name |-> "Detail 2",
       file |-> [width |-> 12, height |-> 11, mode |-> "RGBA",
                 decodes |-> TRUE]]>>

\* images_list of n pairs: the two samples in turn, starting with either
ImagesList(n, first) ==
    [i \in 1..n |-> PairSamples[((i + first) % Len(PairSamples)) + 1]]

Products ==
    {[product_name |-> "shoe", images_list |-> ImagesList(n, first)] :
        n \in 0..MaxPairs, first \in 0..1}

Requests ==
    {[given |-> TRUE, configured |-> c, products |-> ps] :
        c \in BOOLEAN,
        ps \in UNION {[1..n -> Products] : n \in 0..MaxProducts}}

InitRequest ==
    /\ request \in Requests
    /\ req_pc = "handling"
    /\ product_idx = 0
    /\ pair_idx = 0
    /\ processed_variations = <<>>
    /\ results = <<>>
    /\ response = NoResponse
    /\ tmp_files = {}
    /\ blobs = <<>>
    /\ invoked = <<>>

CurrentProduct == request.products[product_idx + 1]

InProduct == req_pc = "handling" /\ product_idx < Len(request.products)

\* the identifier drawn for a pair that reached line 120
PairDrawsId(run) ==
    IF run.id_calls = 0 THEN generated_ids' = generated_ids
    ELSE \E id \in SampleDraws \cup
               {TimestampId(ms, default_id_length) : ms \in 0..MaxTimeMs} :
            GenerateUniqueId(generated_ids, id, generated_ids')

ProcessPairSkipsFailure ==
    /\ InProduct
    /\ pair_idx < Len(CurrentProduct.images_list)
    /\ \E fate \in Fates :
          LET run == PairRun(product_idx + 1, pair_idx + 1,
                             CurrentProduct.images_list[pair_idx + 1], fate,
                             request.configured)
          IN /\ invoked' = Append(invoked, run)
             /\ tmp_files' = tmp_files \cup run.left_behind
             /\ PairDrawsId(run)
             /\ IF run.raised
                THEN UNCHANGED <<blobs, processed_variations>>
                ELSE /\ blobs' = Append(blobs, run.blob)
                     /\ processed_variations' =
                           Append(processed_variations, run.variation)
             /\ UNCHANGED <<req_pc, response>>
    /\ pair_idx' = pair_idx + 1
    /\ UNCHANGED <<request, product_idx, results>>

\* one pair of the current product (lines 68-142).  An exception leaves
\* process_and_upload_image_variations, is caught by process_batch (line 186)
\* and raised again as HTTPException(500): the handler answers the error.
ProcessPair ==
    /\ InProduct
    /\ pair_idx < Len(CurrentProduct.images_list)
    /\ \E fate \in Fates :
          LET run == PairRun(product_idx + 1, pair_idx + 1,
                             CurrentProduct.images_list[pair_idx + 1], fate,
                             request.configured)
          IN /\ invoked' = Append(invoked, run)
             /\ tmp_files' = tmp_files \cup run.left_behind
             /\ PairDrawsId(run)
             /\ IF run.raised
                THEN /\ req_pc' = "responded"
                     /\ response' = [done |-> TRUE, status |-> 500,
                                     processed_images |-> <<>>]
                     /\ UNCHANGED <<blobs, processed_variations>>
                ELSE /\ blobs' = Append(blobs, run.blob)
                     /\ processed_variations' =
                           Append(processed_variations, run.variation)
                     /\ UNCHANGED <<req_pc, response>>
    /\ pair_idx' = pair_idx + 1
    /\ UNCHANGED <<request, product_idx, results>>

\* ImageResult(url=variation['azure_url'],
\*             variation_name=variation['variation_name'])
ImageResult(variation) ==
    [url |-> variation.azure_url, variation_name |-> variation.variation_name]

ProductDoneReversed ==
    /\ InProduct
    /\ pair_idx = Len(CurrentProduct.images_list)
    /\ results' = results \o
                      [i \in 1..Len(processed_variations) |->
                          ImageResult(processed_variations[
                              Len(processed_variations) + 1 - i])]
    /\ product_idx' = product_idx + 1
    /\ pair_idx' = 0
    /\ processed_variations' = <<>>
    /\ UNCHANGED <<request, req_pc, response, tmp_files, blobs, invoked,
                   generated_ids>>

\* the inner function returned: its variations are appended to results
\* (lines 180-184) and the outer loop goes on
ProductDone ==
    /\ InProduct
    /\ pair_idx = Len(CurrentProduct.images_list)
    /\ results' = results \o [i \in 1..Len(processed_variations) |->
                                 ImageResult(processed_variations[i])]
    /\ product_idx' = product_idx + 1
    /\ pair_idx' = 0
    /\ processed_variations' = <<>>
    /\ UNCHANGED <<request, req_pc, response, tmp_files, blobs, invoked,
                   generated_ids>>

\* return BatchResponse(processed_images=results)
Respond ==
    /\ req_pc = "handling"
    /\ product_idx = Len(request.products)
    /\ req_pc' = "responded"
    /\ response' = [done |-> TRUE, status |-> 200,
                    processed_images |-> results]
    /\ UNCHANGED <<request, product_idx, pair_idx, processed_variations,
                   results, tmp_files, blobs, invoked, generated_ids>>

request_frame == <<pc, length, attempts, unique_id, pool_at_call, returned,
                   last, aux, norm_vars, file_vars, path_vars, image_vars,
                   batch_vars>>

NextRequest ==
    \/ ProcessPair /\ UNCHANGED request_frame
    \/ ProductDone /\ UNCHANGED request_frame
    \/ Respond /\ UNCHANGED request_frame

InitSpecRequest ==
    /\ InitRequest /\ InitNaming /\ InitNormIdle /\ InitFileIdle
    /\ InitPathIdle /\ InitImageIdle /\ InitBatchIdle

SpecRequest == InitSpecRequest /\ [][NextRequest]_vars

(* Properties of the request handler *)

\* C20: when a pair fails (download, decoding, encoding, missing storage
\* configuration or upload), process_batch answers an error with no
\* processed_images: what earlier pairs and products produced is not
\* returned, and no pair after the failing one is processed.
RequestFailsAsAWhole ==
    \A i \in 1..Len(invoked) :
        invoked[i].raised =>
            /\ i = Len(invoked)
            /\ req_pc = "responded"
            /\ response.done
            /\ response.status # 200
            /\ response.processed_images = <<>>

\* C20 witness: the handler answered an error for the first pair of the
\* second product, after the first product had produced results and with a
\* pair still to come
RequestAbortedMidway ==
    /\ response.done /\ response.status = 500
    /\ Len(results) >= 1
    /\ product_idx = 1 /\ pair_idx = 1
    /\ Len(CurrentProduct.images_list) = 2
    /\ invoked[Len(invoked)].raised

\* the pairs of product p, and of the products 1..n, in request order
PairsOfProduct(p) ==
    [k \in 1..Len(request.products[p].images_list) |-> <<p, k>>]

RECURSIVE PairsUpTo(_)
PairsUpTo(n) ==
    IF n = 0 THEN <<>> ELSE PairsUpTo(n - 1) \o PairsOfProduct(n)

RequestOrder == PairsUpTo(Len(request.products))

SuppliedPair(pk) == request.products[pk[1]].images_list[pk[2]]

\* C21: when every pair of a request succeeds, squareify_image and
\* _generate_unique_id were each called once per pair, in request order, and
\* the response holds one result per pair in that order: the url under which
\* the pair's output was stored and the variation_name as it was supplied.
EveryPairOnceInOrder ==
    (response.done /\ response.status = 200) =>
        LET order == RequestOrder
        IN /\ Len(invoked) = Len(order)
           /\ \A i \in 1..Len(order) :
                 /\ invoked[i].product = order[i][1]
                 /\ invoked[i].pair = order[i][2]
                 /\ invoked[i].squareify_calls = 1
                 /\ invoked[i].id_calls = 1
           /\ Len(blobs) = Len(order)
           /\ Len(response.processed_images) = Len(order)
           /\ \A i \in 1..Len(order) :
                 /\ blobs[i].url = order[i]
                 /\ response.processed_images[i].url = blobs[i].url
                 /\ response.processed_images[i].variation_name =
                       SuppliedPair(order[i]).variation_name

\* C21 witness: a request of two products of two pairs each, starting with
\* different samples, was answered with four results
FourPairsAnswered ==
    /\ response.done /\ response.status = 200
    /\ Len(request.products) = 2
    /\ Len(response.processed_images) = 4
    /\ request.products[1].images_list[1].variation_name = "Detail 2"
    /\ request.products[2].images_list[1].variation_name = "main"

\* C30: every temporary file process_and_upload_image_variations created
\* for a pair, the downloaded input and the output, has been removed when
\* the pair is over, whether it succeeded or raised.
TempFilesRemoved ==
    /\ tmp_files = {}
    /\ \A i \in 1..Len(invoked) : invoked[i].left_behind = {}

====
